---------------------------- MODULE Spec2Model ----------------------------
(***************************************************************************)
(* Model of the tlang playground's registry generator                      *)
(* (scripts/generate-registry.js: parseIndexExports, parseNodeFile,         *)
(* extractPorts, simplifyType, generateRegistry and the helpers of the      *)
(* generated registry.ts) and of the playground's NodePropertiesPanel.      *)
(*                                                                         *)
(* Text is modelled as a sequence of tokens.  A token is a string that the  *)
(* code's text tests treat as a unit: a word (identifier or keyword, made   *)
(* of \w characters only), one whitespace token " ", or one punctuation     *)
(* character.  Adjacent word tokens form one longer word, as adjacent word  *)
(* characters do.                                                           *)
(***************************************************************************)
EXTENDS Integers, Sequences, FiniteSets, TLC

VARIABLES
    file,       \* parse specifications: the namespace source file handed to parseNodeFile
    nodes,      \* parse specifications: what parseNodeFile returned
    phase,      \* parse specifications: "ready" before the call, "parsed" after it
    tree,       \* pipeline: the source tree (manifest and namespace files) on disk
    pc,         \* pipeline: position of the run inside generateRegistry / the top-level try
    exports,    \* pipeline: exports.namespaces, a Map kept as a sequence of <<key, value>>
    nsIdx,      \* pipeline: how many entries of exports.namespaces the for-of loop has consumed
    allNodes,   \* pipeline: the allNodes array
    artifact,   \* pipeline: OUTPUT_FILE on disk (NoFile until written)
    writes,     \* pipeline: number of writeFileSync calls made
    exitCode,   \* pipeline: process exit status (-1 while running)
    clock,      \* pipeline: what new Date() returns
    runs,       \* pipeline: registries written by the completed runs, oldest first
    panel,      \* panel: the props of NodePropertiesPanel (node, nodes, edges)
    updates     \* panel: the onUpdate calls made so far, oldest first

parseVars == <<file, nodes, phase>>
pipeVars  == <<tree, pc, exports, nsIdx, allNodes, artifact, writes, exitCode, clock, runs>>
panelVars == <<panel, updates>>
vars      == <<file, nodes, phase, tree, pc, exports, nsIdx, allNodes, artifact,
               writes, exitCode, clock, runs, panel, updates>>

---------------------------------------------------------------------------
(* Sequences and text                                                      *)

Range(s) == {s[i] : i \in 1..Len(s)}

SeqsUpTo(S, n) == UNION {[1..k -> S] : k \in 0..n}

RECURSIVE Str(_)
\* The string a token sequence spells (tokens joined without separator).
Str(toks) == IF toks = <<>> THEN "" ELSE Head(toks) \o Str(Tail(toks))

\* String.prototype.endsWith / startsWith / includes on token sequences.
EndsWith(t, suf) ==
    /\ Len(suf) <= Len(t)
    /\ SubSeq(t, Len(t) - Len(suf) + 1, Len(t)) = suf

StartsWith(t, pre) ==
    /\ Len(pre) <= Len(t)
    /\ SubSeq(t, 1, Len(pre)) = pre

Includes(t, sub) ==
    \E i \in 1..(Len(t) + 1) :
        /\ i + Len(sub) - 1 <= Len(t)
        /\ SubSeq(t, i, i + Len(sub) - 1) = sub

WordTokens == {"a", "b", "out", "value", "readonly", "never", "number", "string",
               "boolean", "Array", "Record", "object", "T", "extends", "unknown"}

IsWord(tok)  == tok \in WordTokens
IsSpace(tok) == tok = " "

\* String.prototype.trim on a token sequence: whitespace tokens off both ends.
RECURSIVE TrimLeft(_)
TrimLeft(t) == IF t # <<>> /\ IsSpace(Head(t)) THEN TrimLeft(Tail(t)) ELSE t

RECURSIVE TrimRight(_)
TrimRight(t) ==
    IF t # <<>> /\ IsSpace(t[Len(t)]) THEN TrimRight(SubSeq(t, 1, Len(t) - 1)) ELSE t

Trim(t) == TrimRight(TrimLeft(t))

\* capitalize(str): first character upper-cased.  Every word token starts
\* with an ASCII letter, so only the first token of the word changes.
UpperFirst(tok) ==
    CASE tok = "a"        -> "A"
      [] tok = "b"        -> "B"
      [] tok = "out"      -> "Out"
      [] tok = "value"    -> "Value"
      [] tok = "readonly" -> "Readonly"
      [] tok = "never"    -> "Never"
      [] tok = "number"   -> "Number"
      [] tok = "string"   -> "String"
      [] tok = "boolean"  -> "Boolean"
      [] tok = "object"   -> "Object"
      [] tok = "extends"  -> "Extends"
      [] tok = "unknown"  -> "Unknown"
      [] OTHER            -> tok

capitalize(word) ==
    IF word = <<>> THEN "" ELSE UpperFirst(Head(word)) \o Str(Tail(word))

---------------------------------------------------------------------------
(* simplifyType                                                            *)

\* typeText.includes(s) for a needle s that is one token of the text.
Has(typeText, tok) == tok \in Range(typeText)

simplifyType(typeText) ==
    IF Has(typeText, "number") THEN "number"
    ELSE IF Has(typeText, "string") THEN "string"
    ELSE IF Has(typeText, "boolean") THEN "boolean"
    ELSE IF Includes(typeText, <<"[", "]">>) \/ Has(typeText, "Array") THEN "array"
    ELSE IF Has(typeText, "{") \/ Has(typeText, "Record") \/ Has(typeText, "object")
         THEN "object"
    ELSE "any"

---------------------------------------------------------------------------
(* extractPorts                                                            *)

\* A port as extractPorts pushes it.
Port(word, type, portType) ==
    [id |-> Str(word), label |-> capitalize(word), type |-> type,
     required |-> (portType = "input")]

\* Tier 1: one port per property signature of a type literal, in order.
RECURSIVE LiteralPorts(_, _)
LiteralPorts(members, portType) ==
    IF members = <<>> THEN <<>>
    ELSE LET m == Head(members)
             rest == LiteralPorts(Tail(members), portType)
         IN  IF m.sig = "property"
             THEN <<Port(<<m.name>>,
                         simplifyType(IF m.hasType THEN m.typeText ELSE <<"unknown">>),
                         portType)>> \o rest
             ELSE rest

\* typeText.match(/\?\s*\{([^}]+)\}/s): the capture group of the leftmost
\* match, or NoMatch.  A match starts at a "?", skips whitespace, needs a
\* "{", then at least one token other than "}", then a "}".
NoMatch == <<"no match">>

RECURSIVE SkipSpace(_, _)
SkipSpace(t, i) == IF i <= Len(t) /\ IsSpace(t[i]) THEN SkipSpace(t, i + 1) ELSE i

RECURSIVE FirstClose(_, _)
\* Index of the first "}" at or after i, or 0.
FirstClose(t, i) ==
    IF i > Len(t) THEN 0 ELSE IF t[i] = "}" THEN i ELSE FirstClose(t, i + 1)

MatchAt(t, i) ==
    IF t[i] # "?" THEN NoMatch
    ELSE LET j == SkipSpace(t, i + 1)
         IN  IF j > Len(t) \/ t[j] # "{" THEN NoMatch
             ELSE LET k == FirstClose(t, j + 1)
                  IN  IF k = 0 \/ k = j + 1 THEN NoMatch
                      ELSE SubSeq(t, j + 1, k - 1)

RECURSIVE ObjectMatchFrom(_, _)
ObjectMatchFrom(t, i) ==
    IF i > Len(t) THEN NoMatch
    ELSE IF MatchAt(t, i) # NoMatch THEN MatchAt(t, i)
    ELSE ObjectMatchFrom(t, i + 1)

objectMatch(typeText) == ObjectMatchFrom(typeText, 1)

\* objectContent.matchAll(/(\w+)\s*:/g): the captured words in text order.
\* A match is a maximal run of word tokens followed by optional whitespace
\* and a ":"; the scan resumes after the ":".
RECURSIVE WordEnd(_, _)
\* First index after the run of word tokens that starts at i.
WordEnd(t, i) == IF i <= Len(t) /\ IsWord(t[i]) THEN WordEnd(t, i + 1) ELSE i

RECURSIVE PropertyMatchesFrom(_, _)
PropertyMatchesFrom(t, i) ==
    IF i > Len(t) THEN <<>>
    ELSE IF ~IsWord(t[i]) THEN PropertyMatchesFrom(t, i + 1)
    ELSE LET e == WordEnd(t, i)
             c == SkipSpace(t, e)
         IN  IF c <= Len(t) /\ t[c] = ":"
             THEN <<SubSeq(t, i, e - 1)>> \o PropertyMatchesFrom(t, c + 1)
             ELSE PropertyMatchesFrom(t, e)

propertyMatches(objectContent) == PropertyMatchesFrom(objectContent, 1)

RECURSIVE FallbackPortsReversed(_, _)
\* The loop of lines 202-212 with unshift in place of push.
FallbackPortsReversed(words, portType) ==
    IF words = <<>> THEN <<>>
    ELSE LET rest == FallbackPortsReversed(Tail(words), portType)
         IN  IF Head(words) # <<"readonly">>
             THEN rest \o <<Port(Head(words), "any", portType)>>
             ELSE rest

\* Tier 3: ports of the words matched inside the braces, 'readonly' skipped.
RECURSIVE FallbackPorts(_, _)
FallbackPorts(words, portType) ==
    IF words = <<>> THEN <<>>
    ELSE LET rest == FallbackPorts(Tail(words), portType)
         IN  IF Head(words) # <<"readonly">>
             THEN <<Port(Head(words), "any", portType)>> \o rest
             ELSE rest

\* The branch of a conditional type extractPorts recurses into.
FalseBranchOf(typeNode) == typeNode.falseType
BranchOf(typeNode) == typeNode.trueType

\* The role extractPorts hands to its recursive call.
FlippedRole(portType) == IF portType = "input" THEN "output" ELSE "input"
RecursedRole(portType) == portType

RECURSIVE extractPorts(_, _)
extractPorts(typeNode, portType) ==
    IF typeNode.kind = "literal" THEN LiteralPorts(typeNode.members, portType)
    ELSE IF typeNode.kind = "conditional"
         THEN extractPorts(BranchOf(typeNode), RecursedRole(portType))
    ELSE LET m == objectMatch(typeNode.text)
         IN  IF m # NoMatch THEN FallbackPorts(propertyMatches(m), portType)
             ELSE <<>>

---------------------------------------------------------------------------
(* parseNodeFile                                                           *)
(*                                                                         *)
(* A source file is the sequence of its top-level statements:              *)
(*   [kind |-> "interface", name, doc, members]                            *)
(*   [kind |-> "alias", exported, name, typeText]                          *)
(*   [kind |-> "other"]                                                    *)
(* An identifier is a token sequence of its camel-case chunks              *)
(* (<<"Add", "Node">> is AddNode); an interface member is                  *)
(*   [sig |-> "property" | "method", name, hasType, type].                 *)

\* Map.prototype.set on a Map kept as a sequence of <<key, value>> pairs in
\* insertion order: a present key keeps its place and takes the new value.
MapSetAppendAlways(map, key, value) == Append(map, <<key, value>>)
MapSetMoveToEnd(map, key, value) ==
    Append(SelectSeq(map, LAMBDA e : e[1] # key), <<key, value>>)
MapSet(map, key, value) ==
    IF \E i \in 1..Len(map) : map[i][1] = key
    THEN [i \in 1..Len(map) |-> IF map[i][1] = key THEN <<key, value>> ELSE map[i]]
    ELSE Append(map, <<key, value>>)

\* Lines 98-109: the table of exported aliases that look like node aliases.
RECURSIVE typeExportsOf(_)
typeExportsOf(stmts) ==
    IF stmts = <<>> THEN <<>>
    ELSE LET s == stmts[Len(stmts)]
             before == typeExportsOf(SubSeq(stmts, 1, Len(stmts) - 1))
         IN  IF /\ s.kind = "alias"
                /\ s.exported
                /\ (EndsWith(s.typeText, <<"Node">>) \/ Includes(s.typeText, <<"Node", "<">>))
             THEN MapSet(before, s.name, s.typeText)
             ELSE before

\* Lines 120-126 and 156: first line of the leading JSDoc comment, trimmed.
descriptionOf(doc) == IF doc = <<>> THEN "" ELSE Str(Trim(Head(doc)))

\* Lines 129-142: the last 'inputs' / 'outputs' property with a type wins.
RECURSIVE memberPorts(_, _, _)
memberPorts(members, memberName, portType) ==
    IF members = <<>> THEN <<>>
    ELSE LET m == members[Len(members)]
         IN  IF m.sig = "property" /\ m.name = memberName /\ m.hasType
             THEN extractPorts(m.type, portType)
             ELSE memberPorts(SubSeq(members, 1, Len(members) - 1), memberName, portType)

\* Lines 145-151: the export name of an interface.
ExpMatches(expType, interfaceName) ==
    \/ expType = interfaceName
    \/ StartsWith(expType, interfaceName \o <<"<">>)

RECURSIVE LastMatchingAlias(_, _, _)
\* The loop of lines 146-151 without its break.
LastMatchingAlias(typeExports, interfaceName, dflt) ==
    IF typeExports = <<>> THEN dflt
    ELSE LET e == typeExports[Len(typeExports)]
         IN  IF ExpMatches(e[2], interfaceName) THEN e[1]
             ELSE LastMatchingAlias(SubSeq(typeExports, 1, Len(typeExports) - 1),
                                    interfaceName, dflt)

RECURSIVE FirstMatchingAlias(_, _, _)
FirstMatchingAlias(typeExports, interfaceName, dflt) ==
    IF typeExports = <<>> THEN dflt
    ELSE IF ExpMatches(Head(typeExports)[2], interfaceName) THEN Head(typeExports)[1]
    ELSE FirstMatchingAlias(Tail(typeExports), interfaceName, dflt)

\* interfaceName.replace(/Node$/, '')
StripNode(interfaceName) ==
    IF EndsWith(interfaceName, <<"Node">>)
    THEN SubSeq(interfaceName, 1, Len(interfaceName) - 1)
    ELSE interfaceName

exportNameOf(typeExports, interfaceName) ==
    FirstMatchingAlias(typeExports, interfaceName, Str(StripNode(interfaceName)))

\* Lines 153-159: the node pushed for the interface at statement index i.
\* decl is bookkeeping of the model (the statement's index in the file); the
\* code's node has no such field and nothing in the model reads it but the
\* ordering properties.
NodeOf(stmts, i) ==
    LET s == stmts[i]
    IN  [name          |-> exportNameOf(typeExportsOf(stmts), s.name),
         interfaceName |-> Str(s.name),
         description   |-> descriptionOf(s.doc),
         inputs        |-> memberPorts(s.members, "inputs", "input"),
         outputs       |-> memberPorts(s.members, "outputs", "output"),
         decl          |-> i]

\* nodes.push(...) of line 153.
PushFront(arr, x) == <<x>> \o arr
Push(arr, x) == Append(arr, x)

RECURSIVE NodesUpTo(_, _)
\* Lines 112-161: the nodes pushed by the first n statements.
NodesUpTo(stmts, n) ==
    IF n = 0 THEN <<>>
    ELSE LET s == stmts[n]
             before == NodesUpTo(stmts, n - 1)
         IN  IF s.kind = "interface" /\ EndsWith(s.name, <<"Node">>)
             THEN Push(before, NodeOf(stmts, n))
             ELSE before

parseNodeFile(stmts) == NodesUpTo(stmts, Len(stmts))

---------------------------------------------------------------------------
(* Bounded inputs of the parse specifications                              *)

MaxMembers == 2   \* property signatures in one type literal
MaxText    == 3   \* tokens in an arbitrary opaque type text
MaxBody    == 4   \* tokens between the braces of a '? { ... }' shaped text
MaxDepth   == 2   \* nesting depth of conditional types
MaxFileStmts == 4 \* statements of a namespace file in the naming specification

Prop(name, typeText) ==
    [sig |-> "property", name |-> name, hasType |-> TRUE, typeText |-> typeText]

LiteralMembers ==
    { Prop("a", <<"number">>),
      Prop("a", <<"string">>),
      Prop("value", <<"string">>),
      Prop("out", <<"Record", "<", "string", ",", "number", ">">>),
      [sig |-> "property", name |-> "b", hasType |-> FALSE, typeText |-> <<>>],
      [sig |-> "method", name |-> "b", hasType |-> TRUE, typeText |-> <<"boolean">>] }

Literal(members) == [kind |-> "literal", members |-> members]
Opaque(text)     == [kind |-> "other", text |-> text]
Conditional(t, f) == [kind |-> "conditional", trueType |-> t, falseType |-> f]

TextAlphabet == {"?", "{", "}", ":", " ", "a", "readonly"}
BodyAlphabet == {":", " ", "a", "b", "readonly", "{"}

ShapedTexts ==
    { <<"T", "|", "?">> \o sp \o <<"{">> \o body \o <<"}">> :
        sp \in {<<>>, <<" ">>}, body \in SeqsUpTo(BodyAlphabet, MaxBody) }

LeafTypes ==
    {Literal(ms) : ms \in SeqsUpTo(LiteralMembers, MaxMembers)}
    \cup {Opaque(t) : t \in SeqsUpTo(TextAlphabet, MaxText) \cup ShapedTexts}

\* What stands in the false branch of the conditionals built: a type
\* literal with a port of its own.
FalseBranches == {Literal(<<Prop("b", <<"boolean">>)>>)}

\* T extends string ? { value: string } : never
ValueOrNever == Conditional(Literal(<<Prop("value", <<"string">>)>>), Opaque(<<"never">>))

RECURSIVE NestedTypes(_)
NestedTypes(d) ==
    IF d = 0 THEN LeafTypes
    ELSE LeafTypes \cup {Conditional(t, f) : t \in NestedTypes(d - 1), f \in FalseBranches}

TypeExprs(d) == NestedTypes(d) \cup {ValueOrNever}

IMember(name, type) ==
    [sig |-> "property", name |-> name, hasType |-> TRUE, type |-> type]

Interface(name, doc, members) ==
    [kind |-> "interface", name |-> name, doc |-> doc, members |-> members]

Alias(exported, name, typeText) ==
    [kind |-> "alias", exported |-> exported, name |-> name, typeText |-> typeText]

NumberIO ==
    << IMember("inputs", Literal(<<Prop("a", <<"number">>)>>)),
       IMember("outputs", Literal(<<Prop("out", <<"number">>)>>)) >>

\* The statements the naming specification builds its files from.
NameStmts ==
    { Interface(<<"Add", "Node">>, << <<" ", "Adds">>, <<"more">> >>, NumberIO),
      Interface(<<"Subtract", "Node">>, <<>>, NumberIO),
      Interface(<<"Helper">>, <<>>, <<>>),
      Alias(TRUE, "Add", <<"Add", "Node">>),
      Alias(TRUE, "Sum", <<"Add", "Node">>),
      Alias(TRUE, "Plus", <<"Add", "Node", "<", "T", ">">>),
      Alias(TRUE, "Add", <<"Subtract", "Node">>),
      Alias(FALSE, "Minus", <<"Subtract", "Node">>),
      Alias(TRUE, "Aid", <<"Helper">>),
      [kind |-> "other"] }

---------------------------------------------------------------------------
(* Idle values of the state a specification does not use                   *)

NoFile == [written |-> FALSE]

PipeIdle ==
    /\ tree = <<>>
    /\ pc = "idle"
    /\ exports = <<>>
    /\ nsIdx = 0
    /\ allNodes = <<>>
    /\ artifact = NoFile
    /\ writes = 0
    /\ exitCode = -1
    /\ clock = 0
    /\ runs = <<>>

PanelIdle ==
    /\ panel = <<>>
    /\ updates = <<>>

ParseIdle ==
    /\ file = <<>>
    /\ nodes = <<>>
    /\ phase = "idle"

---------------------------------------------------------------------------
(* The parse specifications: one call of parseNodeFile                     *)

\* parseNodeFile(filePath, namespaceName) on the file read.
ParseFile ==
    /\ phase = "ready"
    /\ nodes' = parseNodeFile(file)
    /\ phase' = "parsed"
    /\ UNCHANGED <<file, pipeVars, panelVars>>

\* Port extraction: a file made of one Node interface with one member.
InitPorts ==
    /\ \E n \in {"inputs", "outputs", "config"}, t \in TypeExprs(MaxDepth) :
           file = <<Interface(<<"X", "Node">>, <<>>, <<IMember(n, t)>>)>>
    /\ nodes = <<>>
    /\ phase = "ready"
    /\ PipeIdle
    /\ PanelIdle

SpecPorts == InitPorts /\ [][ParseFile]_vars

\* Export naming: a file of interfaces and aliases.
InitNames ==
    /\ file \in SeqsUpTo(NameStmts, MaxFileStmts)
    /\ nodes = <<>>
    /\ phase = "ready"
    /\ PipeIdle
    /\ PanelIdle

SpecNames == InitNames /\ [][ParseFile]_vars

---------------------------------------------------------------------------
(* Properties of port extraction (SpecPorts)                               *)

\* The one member of the one interface of the file under SpecPorts.
TheMember == file[1].members[1]

\* The port list parseNodeFile filled from the member, by the member's name.
PortsOfMember ==
    IF TheMember.name = "inputs" THEN nodes[1].inputs
    ELSE IF TheMember.name = "outputs" THEN nodes[1].outputs
    ELSE <<>>

RoleOfMember == IF TheMember.name = "inputs" THEN "input" ELSE "output"

RECURSIVE InnermostTrue(_)
\* The type reached from a conditional type by following true branches only.
InnermostTrue(t) == IF t.kind = "conditional" THEN InnermostTrue(t.trueType) ELSE t

\* C3: in every node definition parseNodeFile produced, whichever tier
\* produced the ports, every port of inputs has required = TRUE and every
\* port of outputs has required = FALSE.
RequiredFlagLaw ==
    phase = "parsed" =>
        \A k \in 1..Len(nodes) :
            /\ \A p \in Range(nodes[k].inputs) : p.required = TRUE
            /\ \A p \in Range(nodes[k].outputs) : p.required = FALSE

\* C3 witness: inputs extracted through a nested conditional whose innermost
\* true branch is an opaque text (fallback tier), at least one port found.
RequiredFlagWitness ==
    /\ phase = "parsed"
    /\ TheMember.name = "inputs"
    /\ TheMember.type.kind = "conditional"
    /\ TheMember.type.trueType.kind = "conditional"
    /\ InnermostTrue(TheMember.type).kind = "other"
    /\ Len(nodes[1].inputs) >= 1

Distinct(ports) ==
    \A i, j \in 1..Len(ports) : ports[i].id = ports[j].id => i = j

\* C4: in every node definition parseNodeFile produced, the port ids of
\* inputs are pairwise distinct and the port ids of outputs are pairwise
\* distinct.
PortIdsDistinct ==
    phase = "parsed" =>
        \A k \in 1..Len(nodes) :
            Distinct(nodes[k].inputs) /\ Distinct(nodes[k].outputs)

\* C9: for a conditional type, the ports are exactly those of the type's
\* true branch with the same role, at any nesting depth (so those of the
\* innermost true branch); 'T extends string ? { value: string } : never'
\* as inputs yields the single port value / string / required.
ConditionalTakesTrueBranch ==
    (phase = "parsed" /\ TheMember.type.kind = "conditional") =>
        /\ TheMember.name \in {"inputs", "outputs"} =>
               /\ PortsOfMember = extractPorts(TheMember.type.trueType, RoleOfMember)
               /\ PortsOfMember = extractPorts(InnermostTrue(TheMember.type), RoleOfMember)
        /\ ( /\ TheMember.name = "inputs"
             /\ TheMember.type = ValueOrNever ) =>
               nodes[1].inputs = << [id |-> "value", label |-> "Value",
                                     type |-> "string", required |-> TRUE] >>

\* C9 witness: a conditional nested in a conditional, both false branches
\* type literals with a port b, and the ports found are those of the
\* innermost true branch: one port a, none b.
ConditionalWitness ==
    /\ phase = "parsed"
    /\ TheMember.name = "inputs"
    /\ TheMember.type.kind = "conditional"
    /\ TheMember.type.falseType.kind = "literal"
    /\ TheMember.type.trueType.kind = "conditional"
    /\ TheMember.type.trueType.falseType.kind = "literal"
    /\ InnermostTrue(TheMember.type) = Literal(<<Prop("a", <<"number">>)>>)
    /\ nodes[1].inputs = << [id |-> "a", label |-> "A", type |-> "number",
                             required |-> TRUE] >>

---------------------------------------------------------------------------
(* Properties of export naming (SpecNames)                                 *)

\* Statement i is an exported alias the alias table retains.
RetainedAliasAt(i) ==
    /\ file[i].kind = "alias"
    /\ file[i].exported
    /\ \/ EndsWith(file[i].typeText, <<"Node">>)
       \/ \E j \in 1..(Len(file[i].typeText) - 1) :
              file[i].typeText[j] = "Node" /\ file[i].typeText[j + 1] = "<"

DeclsOfAlias(a) == {i \in 1..Len(file) : RetainedAliasAt(i) /\ file[i].name = a}

TableNames == {file[i].name : i \in {j \in 1..Len(file) : RetainedAliasAt(j)}}

MinOf(S) == CHOOSE x \in S : \A y \in S : x <= y
MaxOf(S) == CHOOSE x \in S : \A y \in S : x >= y

\* The table maps a name to the text of its last retained declaration and
\* keeps the names in the order of their first retained declaration.
TableText(a) == file[MaxOf(DeclsOfAlias(a))].typeText
TablePos(a)  == MinOf(DeclsOfAlias(a))

\* text is exactly the interface name, or the interface name followed by '<'.
RefersTo(text, iname) ==
    \/ text = iname
    \/ /\ Len(text) > Len(iname)
       /\ \A j \in 1..Len(iname) : text[j] = iname[j]
       /\ text[Len(iname) + 1] = "<"

MatchingAliases(iname) == {a \in TableNames : RefersTo(TableText(a), iname)}

ExpectedName(iname) ==
    IF MatchingAliases(iname) = {}
    THEN Str(SubSeq(iname, 1, Len(iname) - 1))
    ELSE CHOOSE a \in MatchingAliases(iname) :
             \A b \in MatchingAliases(iname) : TablePos(a) <= TablePos(b)

\* C10: the exported name of every interface ending in 'Node' is the name of
\* the first alias of the table, in table order, whose text is the interface
\* name or a generic instantiation of it; failing that, the interface name
\* without its trailing 'Node'.
ExportNameResolution ==
    phase = "parsed" =>
        \A i \in 1..Len(file) :
            (file[i].kind = "interface" /\ file[i].name[Len(file[i].name)] = "Node") =>
                \E k \in 1..Len(nodes) :
                    /\ nodes[k].decl = i
                    /\ nodes[k].interfaceName = Str(file[i].name)
                    /\ nodes[k].name = ExpectedName(file[i].name)

\* C10 witness: one file where AddNode has two matching aliases and takes
\* the first, and SubtractNode has none and becomes Subtract.
ExportNameWitness ==
    /\ phase = "parsed"
    /\ \E k \in 1..Len(nodes) :
           /\ Cardinality(MatchingAliases(file[nodes[k].decl].name)) >= 2
           /\ nodes[k].interfaceName = "AddNode"
           /\ nodes[k].name = "Sum"
    /\ \E k \in 1..Len(nodes) :
           /\ nodes[k].interfaceName = "SubtractNode"
           /\ nodes[k].name = "Subtract"

---------------------------------------------------------------------------
(* The pipeline: parseIndexExports, generateRegistry, the top-level try    *)
(*                                                                         *)
(* A file on disk is [readable, stmts]; reading an unreadable or missing   *)
(* file throws.  The manifest's statements are                             *)
(*   [kind |-> "namespace", name, module]   export * as name from module   *)
(*   [kind |-> "named", names]              export type { ... } from '...' *)
(*   [kind |-> "local"]                     anything else                  *)

\* readFileSync(path, 'utf-8'): the content, or a throw (ok = FALSE).
readFileLenient(f) == [ok |-> TRUE, content |-> IF f.readable THEN f.stmts ELSE <<>>]
readFileSync(f) == [ok |-> f.readable, content |-> f.stmts]

\* join(TLANG_SRC_DIR, moduleSpecifier + '.ts')
filePathOf(module) == module \o ".ts"

RECURSIVE parseIndexExports(_)
\* Lines 54-80 on the manifest's statements.
parseIndexExports(stmts) ==
    IF stmts = <<>> THEN [topLevel |-> {}, namespaces |-> <<>>]
    ELSE LET s == stmts[Len(stmts)]
             before == parseIndexExports(SubSeq(stmts, 1, Len(stmts) - 1))
         IN  IF s.kind = "named"
             THEN [before EXCEPT !.topLevel = @ \cup s.names]
             ELSE IF s.kind = "namespace"
             THEN [before EXCEPT !.namespaces = MapSet(@, s.name, filePathOf(s.module))]
             ELSE before

\* CATEGORY_COLORS[node.category] || '#6b7280'
colorOf(category) ==
    CASE category = "Numbers" -> "#3b82f6"
      [] category = "Strings" -> "#10b981"
      [] OTHER                -> "#6b7280"

\* Lines 255-262: the nodes of one namespace as pushed onto allNodes.
withNamespace(parsed, namespaceName) ==
    [k \in 1..Len(parsed) |->
        [name          |-> parsed[k].name,
         interfaceName |-> parsed[k].interfaceName,
         description   |-> parsed[k].description,
         inputs        |-> parsed[k].inputs,
         outputs       |-> parsed[k].outputs,
         decl          |-> parsed[k].decl,
         category      |-> namespaceName,
         fullId        |-> namespaceName \o "." \o parsed[k].name,
         tlangType     |-> namespaceName \o "." \o parsed[k].name]]

\* Lines 268-285: one property of the generated object literal, key first.
entryOf(node) ==
    [key         |-> node.fullId,
     id          |-> node.fullId,
     name        |-> node.name,
     category    |-> node.category,
     description |-> IF node.description # "" THEN node.description
                     ELSE node.name \o " operation",
     inputs      |-> node.inputs,
     outputs     |-> node.outputs,
     tlangType   |-> node.tlangType,
     style       |-> [color |-> colorOf(node.category)]]

\* Lines 287-328: the generated file, its header's timestamp apart from the
\* properties of the object literal (in text order).
registryCodeStamped(all, now) ==
    [written |-> TRUE, generatedAt |-> now,
     entries |-> [k \in 1..Len(all) |->
                    [entryOf(all[k]) EXCEPT !.description = "generated at run " \o ToString(now)]]]
registryCode(all, now) ==
    [written |-> TRUE, generatedAt |-> now,
     entries |-> [k \in 1..Len(all) |-> entryOf(all[k])]]

MaxManifest  == 3   \* statements of the manifest
MaxTreeStmts == 2   \* statements of all namespace files together
MaxRuns      == 2   \* runs of the generator over the same tree

Namespace(name, module) == [kind |-> "namespace", name |-> name, module |-> module]

ManifestStmts ==
    { Namespace("Numbers", "numbers"),
      Namespace("Custom", "strings"),
      Namespace("Numbers", "strings"),
      [kind |-> "named", names |-> {"Exec", "Out"}] }

TreeStmts ==
    { Interface(<<"Add", "Node">>, << <<" ", "Adds">>, <<"more">> >>, NumberIO),
      Interface(<<"Subtract", "Node">>, <<>>, NumberIO) }

Missing == [readable |-> FALSE, stmts |-> <<>>]
OnDisk(stmts) == [readable |-> TRUE, stmts |-> stmts]

Paths == {"numbers.ts", "strings.ts"}

FileSystems ==
    { fs \in [Paths -> {Missing} \cup {OnDisk(c) : c \in SeqsUpTo(TreeStmts, MaxTreeStmts)}] :
        Len(fs["numbers.ts"].stmts) + Len(fs["strings.ts"].stmts) <= MaxTreeStmts }

Trees ==
    { [manifest |-> m, files |-> fs] :
        m \in {Missing} \cup {OnDisk(c) : c \in SeqsUpTo(ManifestStmts, MaxManifest)},
        fs \in FileSystems }

NoExports == [topLevel |-> {}, namespaces |-> <<>>]

Init ==
    /\ tree \in Trees
    /\ pc = "start"
    /\ exports = NoExports
    /\ nsIdx = 0
    /\ allNodes = <<>>
    /\ artifact = NoFile
    /\ writes = 0
    /\ exitCode = -1
    /\ clock = 1
    /\ runs = <<>>
    /\ ParseIdle
    /\ PanelIdle

\* Lines 338-340: the catch of the top-level try.
Caught ==
    /\ pc' = "failed"
    /\ exitCode' = 1

\* Line 244: const exports = parseIndexExports()
ParseIndex ==
    /\ pc = "start"
    /\ LET r == readFileSync(tree.manifest)
       IN  IF r.ok
           THEN /\ exports' = parseIndexExports(r.content)
                /\ pc' = "parse"
                /\ UNCHANGED exitCode
           ELSE /\ Caught
                /\ UNCHANGED exports
    /\ UNCHANGED <<tree, nsIdx, allNodes, artifact, writes, clock, runs, parseVars, panelVars>>

\* Lines 251-265: one turn of the loop over exports.namespaces
ParseNamespace ==
    /\ pc = "parse"
    /\ nsIdx < Len(exports.namespaces)
    /\ LET e == exports.namespaces[nsIdx + 1]
           r == readFileSync(tree.files[e[2]])
       IN  IF r.ok
           THEN /\ allNodes' = allNodes \o withNamespace(parseNodeFile(r.content), e[1])
                /\ nsIdx' = nsIdx + 1
                /\ UNCHANGED <<pc, exitCode>>
           ELSE /\ Caught
                /\ UNCHANGED <<allNodes, nsIdx>>
    /\ UNCHANGED <<tree, exports, artifact, writes, clock, runs, parseVars, panelVars>>

\* Lines 268-333: build the code, write it, return; the process exits with 0.
WriteRegistry ==
    /\ pc = "parse"
    /\ nsIdx = Len(exports.namespaces)
    /\ artifact' = registryCode(allNodes, clock)
    /\ writes' = writes + 1
    /\ runs' = Append(runs, artifact')
    /\ pc' = "done"
    /\ exitCode' = 0
    /\ UNCHANGED <<tree, exports, nsIdx, allNodes, clock, parseVars, panelVars>>

\* The generator is started again, a new process, later, on the same tree.
Rerun ==
    /\ pc \in {"done", "failed"}
    /\ clock < MaxRuns
    /\ clock' = clock + 1
    /\ pc' = "start"
    /\ exports' = NoExports
    /\ nsIdx' = 0
    /\ allNodes' = <<>>
    /\ writes' = 0
    /\ exitCode' = -1
    /\ UNCHANGED <<tree, artifact, runs, parseVars, panelVars>>

Next == ParseIndex \/ ParseNamespace \/ WriteRegistry \/ Rerun

Spec == Init /\ [][Next]_vars

---------------------------------------------------------------------------
(* The generated registry.ts: nodeRegistry and its helpers                 *)

\* The value of an entry as the object literal holds it (the key apart).
valueOf(e) ==
    [id |-> e.id, name |-> e.name, category |-> e.category,
     description |-> e.description, inputs |-> e.inputs, outputs |-> e.outputs,
     tlangType |-> e.tlangType, style |-> e.style]

\* Lines 302-304: the object the literal evaluates to, as its own properties
\* in enumeration order.  A key written twice keeps its first place and takes
\* its last value.  (No key is an array index: each contains a '.' after an
\* identifier.)
nodeRegistry(entries) ==
    LET firstAt(k) == \A j \in 1..(k - 1) : entries[j].key # entries[k].key
        lastOf(key) == CHOOSE k \in 1..Len(entries) :
                          /\ entries[k].key = key
                          /\ \A j \in (k + 1)..Len(entries) : entries[j].key # key
        keep == SelectSeq([k \in 1..Len(entries) |-> k], firstAt)
    IN  [n \in 1..Len(keep) |->
            <<entries[keep[n]].key, valueOf(entries[lastOf(entries[keep[n]].key)])>>]

\* Object.values(nodeRegistry)
ObjectValues(obj) == [n \in 1..Len(obj) |-> obj[n][2]]

\* Lines 309-311
getNodesByCategory(obj, category) ==
    SelectSeq(ObjectValues(obj), LAMBDA node : node.category = category)

\* Array.prototype.sort() without comparator: ascending UTF-16 code units.
\* The namespace names of the model, in that order.
CodeUnitRank(str) ==
    CASE str = "Custom"  -> 1
      [] str = "Numbers" -> 2
      [] str = "Strings" -> 3

RECURSIVE SortedSeq(_)
SortedSeq(S) ==
    IF S = {} THEN <<>>
    ELSE LET least == CHOOSE x \in S : \A y \in S : CodeUnitRank(x) <= CodeUnitRank(y)
         IN  <<least>> \o SortedSeq(S \ {least})

\* Lines 316-320
getAllCategories(obj) ==
    SortedSeq({ObjectValues(obj)[n].category : n \in 1..Len(obj)})

\* Lines 325-327: nodeRegistry[id] is a property read: an own property, else
\* a property inherited from Object.prototype, else undefined.
Undefined == [undefined |-> TRUE]
ObjectPrototypeKeys == {"constructor", "toString", "valueOf", "hasOwnProperty"}
Inherited(id) == [inheritedFromObjectPrototype |-> id]

getNodeById(obj, id) ==
    IF \E n \in 1..Len(obj) : obj[n][1] = id
    THEN obj[CHOOSE n \in 1..Len(obj) : obj[n][1] = id][2]
    ELSE IF id \in ObjectPrototypeKeys THEN Inherited(id)
    ELSE Undefined

---------------------------------------------------------------------------
(* Properties of the pipeline (Spec)                                       *)

ManifestStmtsRead == IF tree.manifest.readable THEN tree.manifest.stmts ELSE <<>>

NamespaceNames ==
    {ManifestStmtsRead[i].name :
        i \in {j \in 1..Len(ManifestStmtsRead) : ManifestStmtsRead[j].kind = "namespace"}}

ReexportsOf(ns) ==
    {i \in 1..Len(ManifestStmtsRead) :
        ManifestStmtsRead[i].kind = "namespace" /\ ManifestStmtsRead[i].name = ns}

\* Where the manifest first re-exports the namespace, and the file the
\* namespace ends up backed by (its last re-export).
FirstReexport(ns) == MinOf(ReexportsOf(ns))
BackingFile(ns) == ManifestStmtsRead[MaxOf(ReexportsOf(ns))].module \o ".ts"

\* Reading the manifest or a namespace file fails in a run over this tree.
SomeReadFails ==
    \/ ~tree.manifest.readable
    \/ \E ns \in NamespaceNames : ~tree.files[BackingFile(ns)].readable

\* C1: the fullId values of the entries generateRegistry emits are pairwise
\* distinct.
FullIdsDistinct ==
    \A i, j \in 1..Len(allNodes) : allNodes[i].fullId = allNodes[j].fullId => i = j

\* C2: a run in which reading the manifest or a namespace file fails never
\* ends well and never writes (it ends failed with exit status 1); a run
\* writes the artifact at most once, and only after the manifest and every
\* namespace file were read and parsed.
NoWriteOnFailedRead ==
    /\ writes <= 1
    /\ SomeReadFails => (writes = 0 /\ pc # "done" /\ exitCode # 0)
    /\ pc = "failed" => (exitCode = 1 /\ writes = 0 /\ SomeReadFails)
    /\ writes = 1 =>
           /\ pc = "done"
           /\ tree.manifest.readable
           /\ nsIdx = Cardinality(NamespaceNames)
           /\ \A ns \in NamespaceNames : tree.files[BackingFile(ns)].readable

\* C2 witness: the manifest was read, one namespace file was parsed and its
\* nodes collected, the next one is missing, and the run has failed without
\* writing.
FailedReadWitness ==
    /\ pc = "failed"
    /\ exitCode = 1
    /\ nsIdx = 1
    /\ Len(allNodes) >= 1
    /\ writes = 0
    /\ artifact = NoFile

\* C5: of any two emitted entries, the earlier one is from a namespace the
\* manifest re-exports earlier, or from the same namespace and an interface
\* declared earlier in the file.
RegistryOrder ==
    \A i, j \in 1..Len(allNodes) :
        i < j =>
            \/ FirstReexport(allNodes[i].category) < FirstReexport(allNodes[j].category)
            \/ /\ allNodes[i].category = allNodes[j].category
               /\ allNodes[i].decl < allNodes[j].decl

\* C5 witness: a finished run with entries of two namespaces, two of them
\* from one namespace, the manifest re-exporting one namespace twice.
RegistryOrderWitness ==
    /\ pc = "done"
    /\ \E i, j \in 1..Len(allNodes) : allNodes[i].category # allNodes[j].category
    /\ \E i, j \in 1..Len(allNodes) :
           i # j /\ allNodes[i].category = allNodes[j].category
    /\ \E ns \in NamespaceNames : Cardinality(ReexportsOf(ns)) = 2

\* C6: the runs over one unchanged tree write the same registry: the same
\* entries in the same order with the same fields; only the timestamp may
\* differ.
RunsAgree ==
    \A r1, r2 \in 1..Len(runs) : runs[r1].entries = runs[r2].entries

\* C6 witness: two runs have written, at different times, a registry with
\* at least two entries.
RunsAgreeWitness ==
    /\ Len(runs) = 2
    /\ runs[1].generatedAt # runs[2].generatedAt
    /\ Len(runs[2].entries) >= 2
    /\ artifact = runs[2]

\* The ids getNodeById is asked for.
QueryIds ==
    {ns \o "." \o n : ns \in {"Numbers", "Custom"}, n \in {"Add", "Subtract", "Multiply"}}
    \cup {"constructor"}

EmittedWith(pred(_)) == SelectSeq([k \in 1..Len(artifact.entries) |->
                                      valueOf(artifact.entries[k])], pred)

\* C7: getAllCategories() is the sorted list of the namespaces with an
\* emitted entry, each once; getNodesByCategory(c) is exactly the emitted
\* entries of category c in registry order; getNodeById(id) is the entry
\* whose fullId is id, or absent when there is none.
QueryHelpersExact ==
    pc = "done" =>
        LET reg == nodeRegistry(artifact.entries)
            emitted == EmittedWith(LAMBDA e : TRUE)
        IN  /\ getAllCategories(reg) = SortedSeq({e.category : e \in Range(emitted)})
            /\ \A c \in {"Numbers", "Custom", "Strings"} :
                   getNodesByCategory(reg, c) = EmittedWith(LAMBDA e : e.category = c)
            /\ \A id \in QueryIds :
                   IF \E e \in Range(emitted) : e.id = id
                   THEN getNodeById(reg, id) \in {e \in Range(emitted) : e.id = id}
                   ELSE getNodeById(reg, id) = Undefined

---------------------------------------------------------------------------
(* NodePropertiesPanel                                                     *)
(*                                                                         *)
(* JavaScript values are tagged: [t |-> "number", v |-> 1] is the number 1 *)
(* and [t |-> "string", v |-> "1"] the string "1".  A value map (the       *)
(* Record<string, unknown> of node.data.inputs) is a function from its     *)
(* keys; NoInputs stands for an absent data.inputs.                        *)

NumberV(n) == [t |-> "number", v |-> n]
StringV(str) == [t |-> "string", v |-> str]
ObjectV(str) == [t |-> "object", v |-> str]

\* JSON.parse on the texts typed in the model: the decoded value, or a throw.
JSONparse(text) ==
    CASE text = "1"       -> [ok |-> TRUE, value |-> NumberV(1)]
      [] text = "\"x\""   -> [ok |-> TRUE, value |-> StringV("x")]
      [] text = "{\"k\":1}" -> [ok |-> TRUE, value |-> ObjectV("{k:1}")]
      [] OTHER            -> [ok |-> FALSE, value |-> StringV("")]

\* Lines 137-143: the value of the onChange handler for the text typed.
decodeInput(text) ==
    IF JSONparse(text).ok THEN JSONparse(text).value ELSE StringV(text)

\* An absent data.inputs spreads to no property, as an empty map does: both
\* are the empty map here.
NoInputs == <<>>

\* { ...node.data.inputs, [inputId]: value }
OnlyEdited(old, inputId, value) == [k \in {inputId} |-> value]
spreadWith(old, inputId, value) ==
    [k \in DOMAIN old \cup {inputId} |-> IF k = inputId THEN value ELSE old[k]]

\* Lines 35-42: what handleInputChange hands to onUpdate.
handleInputChange(node, inputId, value) ==
    [nodeId |-> node.id,
     update |-> [inputs |-> spreadWith(node.data.inputs, inputId, value)]]

\* The node prop when nothing is selected (null).
NoNode == [selected |-> FALSE]

\* An edge's targetHandle when it names no handle (null, undefined and ''
\* are all falsy).
NoHandle == ""

\* Lines 22-33: the keys of connectedInputs.
connectedInputs(node, ns, edges) ==
    { edges[i].targetHandle :
        i \in { j \in 1..Len(edges) :
                  /\ edges[j].target = node.id
                  /\ edges[j].targetHandle # NoHandle
                  /\ \E n \in 1..Len(ns) : ns[n].id = edges[j].source } }

MaxEdges == 2   \* edges of the graph handed to the panel

PortA == [id |-> "a", label |-> "A", type |-> "number", required |-> TRUE]
PortB == [id |-> "b", label |-> "B", type |-> "any", required |-> TRUE]
PortOut == [id |-> "out", label |-> "Out", type |-> "number", required |-> FALSE]

MetaAdd ==
    [id |-> "Numbers.Add", name |-> "Add", category |-> "Numbers",
     description |-> "Adds", inputs |-> <<PortA, PortB>>, outputs |-> <<PortOut>>,
     tlangType |-> "Numbers.Add", style |-> [color |-> "#3b82f6"]]

MetaConst ==
    [id |-> "Custom.Const", name |-> "Const", category |-> "Custom",
     description |-> "Const operation", inputs |-> <<>>, outputs |-> <<PortOut>>,
     tlangType |-> "Custom.Const", style |-> [color |-> "#6b7280"]]

InputMaps ==
    { NoInputs,
      [k \in {"a"} |-> NumberV(1)],
      [k \in {"a", "b"} |-> IF k = "a" THEN NumberV(1) ELSE StringV("x")] }

GraphNode(id, meta, ins) ==
    [id |-> id, data |-> [metadata |-> meta, label |-> meta.name, inputs |-> ins]]

Edge(source, target, targetHandle) ==
    [source |-> source, target |-> target, targetHandle |-> targetHandle,
     sourceHandle |-> "out"]

\* n3 is the id of no node: an edge from it dangles.
EdgeSet ==
    { Edge("n2", "n1", "a"), Edge("n3", "n1", "b"), Edge("n2", "n1", NoHandle),
      Edge("n1", "n2", "a") }

TypedTexts == {"1", "\"x\"", "{\"k\":1}", "abc", ""}

PanelProps ==
    { [node |-> sel, nodes |-> <<n1, GraphNode("n2", MetaConst, NoInputs)>>, edges |-> es] :
        n1 \in {GraphNode("n1", MetaAdd, ins) : ins \in InputMaps},
        sel \in {NoNode} \cup {GraphNode("n1", MetaAdd, ins) : ins \in InputMaps}
                \cup {GraphNode("n2", MetaConst, NoInputs)},
        es \in SeqsUpTo(EdgeSet, MaxEdges) }

InitPanel ==
    /\ panel \in {pp \in PanelProps : pp.node = NoNode \/ pp.node \in Range(pp.nodes)}
    /\ updates = <<>>
    /\ PipeIdle
    /\ ParseIdle

\* Lines 100-154: the user types text into the field of an input that is
\* rendered editable; updates keeps the last onUpdate call, with the input
\* and the text it came from.
EditInput ==
    /\ panel.node # NoNode
    /\ \E k \in 1..Len(panel.node.data.metadata.inputs), text \in TypedTexts :
         LET input == panel.node.data.metadata.inputs[k]
         IN  /\ input.id \notin connectedInputs(panel.node, panel.nodes, panel.edges)
             /\ updates' = << [call    |-> handleInputChange(panel.node, input.id,
                                                              decodeInput(text)),
                               inputId |-> input.id,
                               text    |-> text] >>
    /\ UNCHANGED <<panel, pipeVars, parseVars>>

SpecPanel == InitPanel /\ [][EditInput]_vars

\* The input values of the selected node as the panel received them.
PreviousInputs == panel.node.data.inputs

\* What the text typed stands for: its JSON value, or the text itself.
DecodedOrRaw(text) ==
    CASE text = "1"         -> NumberV(1)
      [] text = "\"x\""     -> StringV("x")
      [] text = "{\"k\":1}" -> ObjectV("{k:1}")
      [] OTHER              -> StringV(text)

\* The onUpdate call of an edit names the selected node and carries only the
\* inputs map: the previous values with the edited id set to the new value.
UpdateIsInputsOnly(u) ==
    /\ u.call.nodeId = panel.node.id
    /\ DOMAIN u.call.update = {"inputs"}
    /\ DOMAIN u.call.update.inputs = DOMAIN PreviousInputs \cup {u.inputId}
    /\ u.call.update.inputs[u.inputId] = DecodedOrRaw(u.text)
    /\ \A k \in DOMAIN PreviousInputs \ {u.inputId} :
           u.call.update.inputs[k] = PreviousInputs[k]

IncomingEdges(inputId) ==
    {i \in 1..Len(panel.edges) :
        panel.edges[i].target = panel.node.id /\ panel.edges[i].targetHandle = inputId}

\* C8 as stated: every edit calls onUpdate for the selected node with only
\* the inputs map, the previous values with the edited id set to the decoded
\* (or raw) text; the props (metadata included) stay as they were; and an
\* input with an incoming edge is never edited.
PanelEditsOnlyFreeInputs ==
    [][ \A u \in Range(updates') :
            updates' # updates =>
                /\ panel' = panel
                /\ UpdateIsInputsOnly(u)
                /\ IncomingEdges(u.inputId) = {} ]_vars

\* C8 amended: the same, an input being uneditable when it has an incoming
\* edge whose source node is one of the graph's nodes.
PanelEditsOnlyUnconnectedInputs ==
    [][ \A u \in Range(updates') :
            updates' # updates =>
                /\ panel' = panel
                /\ UpdateIsInputsOnly(u)
                /\ \A i \in IncomingEdges(u.inputId) :
                       \A n \in 1..Len(panel.nodes) :
                           panel.nodes[n].id # panel.edges[i].source ]_vars

\* C8 witness: input b was edited to a text that is no JSON while input a
\* holds a value and is fed by an edge; the update keeps a and sets b to the
\* raw text.
PanelEditWitness ==
    /\ updates # <<>>
    /\ updates[1].inputId = "b"
    /\ updates[1].text = "abc"
    /\ "a" \in connectedInputs(panel.node, panel.nodes, panel.edges)
    /\ panel.node.data.inputs # NoInputs
    /\ "a" \in DOMAIN panel.node.data.inputs
    /\ updates[1].call.update.inputs["a"] = panel.node.data.inputs["a"]
    /\ updates[1].call.update.inputs["b"] = StringV("abc")

---------------------------------------------------------------------------
(* Properties of the fallback tier (SpecPorts)                             *)

\* The text of the member's type, when the type is neither a type literal
\* nor a conditional type.
OpaqueText == TheMember.type.text

\* A '?'-prefixed brace-delimited object literal starts at index i of the
\* text: a "?", whitespace only up to a "{", and a "}" further on with at
\* least one token between the braces.
OpenBraceAfter(t, i) ==
    MinOf({j \in (i + 1)..(Len(t) + 1) : j = Len(t) + 1 \/ t[j] # " "})

ObjectLiteralAt(t, i) ==
    /\ t[i] = "?"
    /\ OpenBraceAfter(t, i) <= Len(t)
    /\ t[OpenBraceAfter(t, i)] = "{"
    /\ \E k \in (OpenBraceAfter(t, i) + 2)..Len(t) :
           /\ t[k] = "}"
           /\ \A m \in (OpenBraceAfter(t, i) + 1)..(k - 1) : t[m] # "}"

HasObjectLiteral(t) == \E i \in 1..Len(t) : ObjectLiteralAt(t, i)

\* The tokens between the braces of the first such object literal.
InsideBraces(t) ==
    LET i == MinOf({x \in 1..Len(t) : ObjectLiteralAt(t, x)})
        j == OpenBraceAfter(t, i)
        k == MinOf({x \in (j + 1)..Len(t) : t[x] = "}"})
    IN  [m \in 1..(k - j - 1) |-> t[j + m]]

\* An identifier starts at index i of c and is followed by a colon
\* (whitespace allowed in between).
IdentifierColonAt(c, i) ==
    /\ c[i] \in WordTokens
    /\ i = 1 \/ c[i - 1] \notin WordTokens
    /\ \E k \in (i + 1)..Len(c) :
           /\ c[k] = ":"
           /\ \E e \in i..(k - 1) :
                  /\ \A m \in i..e : c[m] \in WordTokens
                  /\ \A m \in (e + 1)..(k - 1) : c[m] = " "

\* The identifier that starts at index i of c, as the text spells it.
IdentifierAt(c, i) ==
    LET e == MaxOf({x \in i..Len(c) : \A m \in i..x : c[m] \in WordTokens})
    IN  Str([m \in 1..(e - i + 1) |-> c[i + m - 1]])

RECURSIVE InOrder(_)
\* The members of a set of indices, ascending.
InOrder(S) == IF S = {} THEN <<>> ELSE <<MinOf(S)>> \o InOrder(S \ {MinOf(S)})

\* The ports the fallback tier is to give for the identifiers at the indices
\* idx of the text between the braces: id, type 'any', required by role.
PortsAt(c, idx) ==
    [n \in 1..Len(InOrder(idx)) |->
        [id |-> IdentifierAt(c, InOrder(idx)[n]), type |-> "any",
         required |-> (RoleOfMember = "input")]]

\* The ports found, reduced to the fields the property speaks of.
PortsFound ==
    [n \in 1..Len(PortsOfMember) |->
        [id |-> PortsOfMember[n].id, type |-> PortsOfMember[n].type,
         required |-> PortsOfMember[n].required]]

OpaqueMemberParsed ==
    /\ phase = "parsed"
    /\ TheMember.type.kind = "other"
    /\ TheMember.name \in {"inputs", "outputs"}

=============================================================================
